---- MODULE Spec2Model ----
(***************************************************************************)
(* Request / bid lifecycle of the logistics application                    *)
(* (src/logistics/customer_routes.py, src/logistics/supplier_routes.py,    *)
(* src/logistics/auth.py).                                                 *)
(*                                                                         *)
(* The state is the committed content of the SQLite database (tables       *)
(* request and bid, and the id sequences), plus a record of the last HTTP  *)
(* call: who called what, how it ended and the database it started from.   *)
(* view holds the result sets of the last supplier dashboard call.  In the  *)
(* specifications with concurrent calls, inflight holds the calls that have *)
(* read from the database and not yet finished, and done the calls finished *)
(* since the last time no call was in flight.                               *)
(* Every route handler is one action: it runs its statements on a working  *)
(* copy of the database and either commits the working copy or rolls back  *)
(* to the committed content.                                               *)
(***************************************************************************)
EXTENDS Integers, FiniteSets, Sequences, TLC

\* Bound of the model: the number of rows (requests plus bids) ever inserted.
MaxRows == 3

VARIABLES db, last, view, inflight, done

vars == <<db, last, view, inflight, done>>

----------------------------------------------------------------------------
(* The user table.  Registration is outside the lifecycle; the table is     *)
(* fixed: two customer companies and two supplier companies.                *)

UserIds == {"cust1", "cust2", "supp1", "supp2"}

user ==
  [u \in UserIds |->
     CASE u = "cust1" -> [user_type |-> "Customer", company |-> "company1"]
       [] u = "cust2" -> [user_type |-> "Customer", company |-> "company2"]
       [] u = "supp1" -> [user_type |-> "Supplier", company |-> "company3"]
       [] u = "supp2" -> [user_type |-> "Supplier", company |-> "company4"]]

\* g.user of a call: a row of the user table, or None when nobody is logged in.
None == "None"

\* The callers of the lifecycle specification: one customer, one supplier and
\* a caller who is not logged in.
Callers == {"cust1", "supp1", None}

\* date.today(), as a day number.
Today == 2

\* The logistics fields of a request as RequestForm delivers them, reduced to
\* the two dates (a DateField holds a date): a collection today with a later
\* delivery, and a collection before today with a delivery before the
\* collection.
FieldValues ==
  {[collection_date |-> 2, delivery_date |-> 3],
   [collection_date |-> 1, delivery_date |-> 0]}

Methods == {"GET", "POST"}

----------------------------------------------------------------------------
(* Tables.  A table is a function from the ids of its rows to the rows.     *)

\* request.request_status as the schema's default gives it on INSERT.
DefaultRequestStatus == "Awaiting bids"

\* bid.bid_status as the schema's default gives it on INSERT.
DefaultBidStatus == "Pending"

RequestIdsOf(d) == DOMAIN d.request
BidIdsOf(d) == DOMAIN d.bid

\* Number of rows ever inserted.
NumRows(d) == d.request_seq + d.bid_seq

\* The id the gateway gives the next row of a table: ids count up from 1 and
\* the id of a deleted row is not given again.
NextRequestId(d) == d.request_seq + 1
NextBidId(d) == d.bid_seq + 1

\* INSERT INTO request that leaves the company column empty.
InsertRequest_NoCompany(d, created_by, fields, company) ==
  LET id == NextRequestId(d)
      row == [created_by |-> created_by, company |-> None, fields |-> fields,
              request_status |-> DefaultRequestStatus]
  IN [d EXCEPT !.request = [i \in RequestIdsOf(d) \cup {id} |->
                              IF i = id THEN row ELSE d.request[i]],
               !.request_seq = id]

\* INSERT INTO request (created_by, ..., company) VALUES (...)
InsertRequest(d, created_by, fields, company) ==
  LET id == NextRequestId(d)
      row == [created_by |-> created_by, company |-> company, fields |-> fields,
              request_status |-> DefaultRequestStatus]
  IN [d EXCEPT !.request = [i \in RequestIdsOf(d) \cup {id} |->
                              IF i = id THEN row ELSE d.request[i]],
               !.request_seq = id]

\* INSERT INTO bid (request_id, created_by, bid_amount) VALUES (...)
InsertBid(d, request_id, created_by) ==
  LET id == NextBidId(d)
      row == [request_id |-> request_id, created_by |-> created_by,
              bid_status |-> DefaultBidStatus]
  IN [d EXCEPT !.bid = [i \in BidIdsOf(d) \cup {id} |->
                          IF i = id THEN row ELSE d.bid[i]],
               !.bid_seq = id]

\* UpdateRequestStatus without its WHERE clause.
UpdateRequestStatus_EveryRow(d, id, status) ==
  [d EXCEPT !.request = [i \in RequestIdsOf(d) |->
                           [d.request[i] EXCEPT !.request_status = status]]]

\* UPDATE request SET request_status = ? WHERE id = ?
UpdateRequestStatus(d, id, status) ==
  [d EXCEPT !.request = [i \in RequestIdsOf(d) |->
                           IF i = id THEN [d.request[i] EXCEPT !.request_status = status]
                           ELSE d.request[i]]]

\* UPDATE request of the logistics fields that also resets the status.
UpdateRequestFields_ResetsStatus(d, id, fields) ==
  [d EXCEPT !.request = [i \in RequestIdsOf(d) |->
                           IF i = id
                           THEN [d.request[i] EXCEPT !.fields = fields,
                                                     !.request_status = DefaultRequestStatus]
                           ELSE d.request[i]]]

\* UPDATE request SET collection_address = ?, ... WHERE id = ?
UpdateRequestFields(d, id, fields) ==
  [d EXCEPT !.request = [i \in RequestIdsOf(d) |->
                           IF i = id THEN [d.request[i] EXCEPT !.fields = fields]
                           ELSE d.request[i]]]

\* DELETE FROM request that takes the bids of the request with it.
DeleteRequest_Cascade(d, id) ==
  [d EXCEPT !.request = [i \in RequestIdsOf(d) \ {id} |-> d.request[i]],
            !.bid = [i \in {b \in BidIdsOf(d) : d.bid[b].request_id # id} |-> d.bid[i]]]

\* DELETE FROM request WHERE id = ?
DeleteRequest(d, id) ==
  [d EXCEPT !.request = [i \in RequestIdsOf(d) \ {id} |-> d.request[i]]]

\* UPDATE bid SET bid_status = ? WHERE id = ?
UpdateBidStatus(d, bid_id, status) ==
  [d EXCEPT !.bid = [i \in BidIdsOf(d) |->
                       IF i = bid_id THEN [d.bid[i] EXCEPT !.bid_status = status]
                       ELSE d.bid[i]]]

\* RejectOtherBids with a WHERE clause that matches no row: the other bids of
\* the request keep their status.
RejectOtherBids_NoRow(d, request_id, bid_id) == d

\* RejectOtherBids reaching only the bids inserted before the accepted one.
RejectOtherBids_EarlierBids(d, request_id, bid_id) ==
  [d EXCEPT !.bid = [i \in BidIdsOf(d) |->
                       IF d.bid[i].request_id = request_id /\ i < bid_id
                       THEN [d.bid[i] EXCEPT !.bid_status = "Rejected"]
                       ELSE d.bid[i]]]

\* UPDATE bid SET bid_status = 'Rejected' WHERE request_id = ? AND id is not ?
RejectOtherBids(d, request_id, bid_id) ==
  [d EXCEPT !.bid = [i \in BidIdsOf(d) |->
                       IF d.bid[i].request_id = request_id /\ i # bid_id
                       THEN [d.bid[i] EXCEPT !.bid_status = "Rejected"]
                       ELSE d.bid[i]]]

\* SELECT COUNT(request_id) FROM bid
\* WHERE bid_status is not 'Rejected' AND request_id = ?
CountNotRejected(d, request_id) ==
  Cardinality({i \in BidIdsOf(d) :
                 d.bid[i].request_id = request_id /\ d.bid[i].bid_status # "Rejected"})

\* The NULL id of the bid columns of a request row joined with no bid (ids of
\* rows start at 1).
NullId == 0

\* SELECT b.id ... FROM bid b LEFT JOIN user u ON u.id = b.created_by
\* WHERE u.company = ?
BidsOfCompany(d, company) ==
  {b \in BidIdsOf(d) : user[d.bid[b].created_by].company = company}

\* FROM request r LEFT JOIN <bids> ON request_id = r.id: a request row joined
\* with each of its bids among `bids`, or with a NULL bid when it has none.
LeftJoin(d, bids) ==
  UNION {LET matching == {b \in bids : d.bid[b].request_id = r}
         IN IF matching = {}
            THEN {[request_id |-> r, bid_id |-> NullId]}
            ELSE {[request_id |-> r, bid_id |-> b] : b \in matching}
         : r \in RequestIdsOf(d)}

\* u.company of a joined row (NULL for a row without a bid)
CompanyOfRow(d, row) ==
  IF row.bid_id = NullId THEN None ELSE user[d.bid[row.bid_id].created_by].company

\* b.bid_status of a joined row (NULL for a row without a bid)
BidStatusOfRow(d, row) ==
  IF row.bid_id = NullId THEN None ELSE d.bid[row.bid_id].bid_status

\* The first query with the joined table made of the bids of every company.
live_requests_not_bid_AnyCompany(d, user_company) ==
  {[request_id |-> row.request_id] :
     row \in {row \in LeftJoin(d, BidIdsOf(d)) :
                /\ row.bid_id = NullId
                /\ d.request[row.request_id].request_status # "Complete"}}

\* supplier_requests, first query: requests LEFT JOINed with the bids of the
\* company, WHERE cb.company is not ? AND r.request_status is not 'Complete'.
live_requests_not_bid(d, user_company) ==
  {[request_id |-> row.request_id] :
     row \in {row \in LeftJoin(d, BidsOfCompany(d, user_company)) :
                /\ CompanyOfRow(d, row) # user_company
                /\ d.request[row.request_id].request_status # "Complete"}}

\* supplier_requests, second query: WHERE b.id is not null AND u.company = ?
\* AND r.request_status is not 'Complete'; one row for each bid.
requests_bid(d, user_company) ==
  {row \in LeftJoin(d, BidIdsOf(d)) :
     /\ row.bid_id # NullId
     /\ CompanyOfRow(d, row) = user_company
     /\ d.request[row.request_id].request_status # "Complete"}

\* The third query without the test of the bid's status.
requests_bid_won_AnyStatus(d, user_company) ==
  {row \in LeftJoin(d, BidIdsOf(d)) :
     /\ CompanyOfRow(d, row) = user_company
     /\ d.request[row.request_id].request_status = "Complete"}

\* supplier_requests, third query: WHERE b.bid_status is not 'Rejected' AND
\* u.company = ? AND r.request_status = 'Complete'; one row for each bid.
requests_bid_won(d, user_company) ==
  {row \in LeftJoin(d, BidIdsOf(d)) :
     /\ BidStatusOfRow(d, row) # "Rejected"
     /\ CompanyOfRow(d, row) = user_company
     /\ d.request[row.request_id].request_status = "Complete"}

\* request.created_date, filled in by the table's default when the row is
\* inserted: requests are inserted one after the other, so their created_date
\* orders them as their ids do.
created_date(d, id) == id

RECURSIVE OrderByCreatedDateAsc(_, _)
\* ORDER BY created_date ASC of the rows with the given ids.
OrderByCreatedDateAsc(d, ids) ==
  IF ids = {} THEN <<>>
  ELSE LET first == CHOOSE r \in ids :
                      \A o \in ids : created_date(d, r) <= created_date(d, o)
       IN <<[id |-> first]>> \o OrderByCreatedDateAsc(d, ids \ {first})

RECURSIVE OrderByCreatedDateDesc(_, _)
\* ORDER BY created_date DESC of the rows with the given ids.
OrderByCreatedDateDesc(d, ids) ==
  IF ids = {} THEN <<>>
  ELSE LET first == CHOOSE r \in ids :
                      \A o \in ids : created_date(d, r) >= created_date(d, o)
       IN <<[id |-> first]>> \o OrderByCreatedDateDesc(d, ids \ {first})

\* customer_requests: SELECT id, ... FROM request WHERE company = ?
\* ORDER BY created_date DESC
requests_of_company(d, company) ==
  OrderByCreatedDateDesc(d, {r \in RequestIdsOf(d) : d.request[r].company = company})

\* db.commit(): the working copy becomes the committed content.
Commit(committed, working) == working

\* Rollback on a connection that commits every statement as it runs: the
\* statements executed before the failure stay.
Rollback_Autocommit(committed, working) == working

\* db.rollback(): the working copy is dropped.
Rollback(committed, working) == committed

----------------------------------------------------------------------------
\* A try block: states[k] is the working copy after the k-th statement.
\* fault = 0: every statement and the commit succeed.  fault = k > 0: the k-th
\* call of the block raises (the commit is call Len(states) + 1) and the
\* except branch rolls back.
Transaction(committed, states, fault) ==
  IF fault = 0
  THEN Commit(committed, states[Len(states)])
  ELSE Rollback(committed, IF fault = 1 THEN committed ELSE states[fault - 1])

TransactionOutcome(fault) == IF fault = 0 THEN "committed" ELSE "rolled_back"

----------------------------------------------------------------------------
(* Role gates (auth.py).  With nobody logged in g.user is None and          *)
(* g.user["user_type"] raises, which ends the call with a server error.     *)

customer_only(u) ==
  IF u = None THEN "server_error"
  ELSE IF user[u].user_type # "Customer" THEN "login_redirect"
  ELSE "pass"

\* supplier_only letting every logged-in user through.
supplier_only_AnyUser(u) == IF u = None THEN "server_error" ELSE "pass"

\* supplier_only letting a call with nobody logged in through.
supplier_only_NobodyLoggedIn(u) ==
  IF u = None THEN "pass"
  ELSE IF user[u].user_type # "Supplier" THEN "login_redirect"
  ELSE "pass"

supplier_only(u) ==
  IF u = None THEN "server_error"
  ELSE IF user[u].user_type # "Supplier" THEN "login_redirect"
  ELSE "pass"

----------------------------------------------------------------------------
EmptyTable == [i \in {} |-> None]

\* No dashboard result: the last call was not a dashboard call.
NoView == [caller |-> None]

Init ==
  /\ db = [request |-> EmptyTable, bid |-> EmptyTable, request_seq |-> 0, bid_seq |-> 0]
  /\ view = NoView
  /\ inflight = {}
  /\ done = {}
  /\ last = [op |-> "none", caller |-> None, arg |-> 0, outcome |-> "none",
             fault |-> 0,
             pre |-> [request |-> EmptyTable, bid |-> EmptyTable,
                      request_seq |-> 0, bid_seq |-> 0]]

\* The call of handler `op` by `caller` for the id `arg` ended with `outcome`;
\* fault is the call of its try block that raised (0: none) and pre is the
\* committed database the call started from.
Called(op, caller, arg, outcome, fault) ==
  last' = [op |-> op, caller |-> caller, arg |-> arg, outcome |-> outcome,
           fault |-> fault, pre |-> db]

\* The call changes nothing in the database and ends with `outcome`.
NoMutation(op, caller, arg, outcome) ==
  /\ db' = db
  /\ Called(op, caller, arg, outcome, 0)

\* The try block of a handler: its statements run on a working copy, then the
\* commit; any of these calls may raise, and the except branch rolls back.
Try(op, caller, arg, states) ==
  \E fault \in 0..(Len(states) + 1) :
    /\ db' = Transaction(db, states, fault)
    /\ Called(op, caller, arg, TransactionOutcome(fault), fault)

\* Ids a call may name: every id assigned so far (the row may be deleted
\* since) and 0, an id no row ever has.
RequestIdArgs == 0..db.request_seq
BidIdArgs == 0..db.bid_seq

\* /create-request
create_request(u) ==
  IF customer_only(u) # "pass"
  THEN NoMutation("create_request", u, 0, customer_only(u))
  ELSE \E method \in Methods :
         IF method # "POST"
         THEN NoMutation("create_request", u, 0, "form")
         ELSE \E fields \in FieldValues :
                /\ NumRows(db) < MaxRows
                /\ Try("create_request", u, 0,
                       <<InsertRequest(db, u, fields, user[u].company)>>)

\* remove_request without the test of the request's status.
remove_request_NoCompleteCheck(u) ==
  IF customer_only(u) # "pass"
  THEN NoMutation("remove_request", u, 0, customer_only(u))
  ELSE \E id \in RequestIdArgs :
         IF id \notin RequestIdsOf(db)
         THEN NoMutation("remove_request", u, id, "not_exist")
         ELSE Try("remove_request", u, id, <<DeleteRequest(db, id)>>)

\* /<id>/remove-request (the handler does not look at the method)
remove_request(u) ==
  IF customer_only(u) # "pass"
  THEN NoMutation("remove_request", u, 0, customer_only(u))
  ELSE \E id \in RequestIdArgs :
         IF id \notin RequestIdsOf(db)
         THEN NoMutation("remove_request", u, id, "not_exist")
         ELSE IF db.request[id].request_status = "Complete"
         THEN NoMutation("remove_request", u, id, "complete_error")
         ELSE Try("remove_request", u, id, <<DeleteRequest(db, id)>>)

\* customer_get_request(id): the row, or abort(404)
customer_get_request(d, id) == IF id \in RequestIdsOf(d) THEN "found" ELSE "not_found"

\* /<id>/update-request
update_request(u) ==
  IF customer_only(u) # "pass"
  THEN NoMutation("update_request", u, 0, customer_only(u))
  ELSE \E id \in RequestIdArgs :
         IF customer_get_request(db, id) = "not_found"
         THEN NoMutation("update_request", u, id, "not_found")
         ELSE \E method \in Methods :
                IF method # "POST"
                THEN NoMutation("update_request", u, id, "form")
                ELSE \E fields \in FieldValues :
                       Try("update_request", u, id, <<UpdateRequestFields(db, id, fields)>>)

\* AcceptBidStatements without the effect of the request-status update.
AcceptBidStatements_NoRequestUpdate(d, request_id, bid_id) ==
  LET s2 == UpdateBidStatus(d, bid_id, "Accepted")
      s3 == RejectOtherBids(s2, request_id, bid_id)
  IN <<d, s2, s3>>

\* AcceptBidStatements putting a bid that is already Accepted back to Pending.
AcceptBidStatements_TogglesAccepted(d, request_id, bid_id) ==
  LET s1 == UpdateRequestStatus(d, request_id, "Complete")
      s2 == UpdateBidStatus(s1, bid_id,
              IF d.bid[bid_id].bid_status = "Accepted" THEN "Pending" ELSE "Accepted")
      s3 == RejectOtherBids(s2, request_id, bid_id)
  IN <<s1, s2, s3>>

\* The three statements of accept_bid's try block.
AcceptBidStatements(d, request_id, bid_id) ==
  LET s1 == UpdateRequestStatus(d, request_id, "Complete")
      s2 == UpdateBidStatus(s1, bid_id, "Accepted")
      s3 == RejectOtherBids(s2, request_id, bid_id)
  IN <<s1, s2, s3>>

\* accept_bid for one bid id, the role gate passed.
AcceptBidBody(u, bid_id) ==
  IF bid_id \notin BidIdsOf(db)
  THEN NoMutation("accept_bid", u, bid_id, "server_error")
  ELSE Try("accept_bid", u, bid_id, AcceptBidStatements(db, db.bid[bid_id].request_id, bid_id))

\* /<bid_id>/accept (the handler does not look at the method)
accept_bid(u) ==
  IF customer_only(u) # "pass"
  THEN NoMutation("accept_bid", u, 0, customer_only(u))
  ELSE \E bid_id \in BidIdArgs : AcceptBidBody(u, bid_id)

\* RejectBidStatements testing the count as if it were read after the update.
RejectBidStatements_PostCount(d, request_id, bid_id, number_of_bids) ==
  LET s1 == UpdateBidStatus(d, bid_id, "Rejected")
      s2 == UpdateRequestStatus(s1, request_id, "Awaiting bids")
  IN IF number_of_bids = 0 THEN <<s1, s2>> ELSE <<s1>>

\* RejectBidStatements resetting the request whatever the count.
RejectBidStatements_AlwaysReverts(d, request_id, bid_id, number_of_bids) ==
  LET s1 == UpdateBidStatus(d, bid_id, "Rejected")
      s2 == UpdateRequestStatus(s1, request_id, "Awaiting bids")
  IN <<s1, s2>>

\* RejectBidStatements without the update of the request.
RejectBidStatements_NeverReverts(d, request_id, bid_id, number_of_bids) ==
  <<UpdateBidStatus(d, bid_id, "Rejected")>>

\* The statements of reject_bid's try block; number_of_bids is read before them.
RejectBidStatements(d, request_id, bid_id, number_of_bids) ==
  LET s1 == UpdateBidStatus(d, bid_id, "Rejected")
      s2 == UpdateRequestStatus(s1, request_id, "Awaiting bids")
  IN IF number_of_bids = 1 THEN <<s1, s2>> ELSE <<s1>>

\* RejectBidBody going on with a NULL request id when the bid is not found.
RejectBidBody_NoBidCheck(u, bid_id) ==
  LET request_id == IF bid_id \in BidIdsOf(db) THEN db.bid[bid_id].request_id ELSE NullId
      number_of_bids == CountNotRejected(db, request_id)
  IN Try("reject_bid", u, bid_id, RejectBidStatements(db, request_id, bid_id, number_of_bids))

\* reject_bid for one bid id, the role gate passed.
RejectBidBody(u, bid_id) ==
  IF bid_id \notin BidIdsOf(db)
  THEN NoMutation("reject_bid", u, bid_id, "server_error")
  ELSE LET request_id == db.bid[bid_id].request_id
           number_of_bids == CountNotRejected(db, request_id)
       IN Try("reject_bid", u, bid_id, RejectBidStatements(db, request_id, bid_id, number_of_bids))

\* /<bid_id>/reject (the handler does not look at the method)
reject_bid(u) ==
  IF customer_only(u) # "pass"
  THEN NoMutation("reject_bid", u, 0, customer_only(u))
  ELSE \E bid_id \in BidIdArgs : RejectBidBody(u, bid_id)

\* SubmitBidStatements without the effect of the request-status update.
SubmitBidStatements_NoStatusUpdate(d, id, created_by) ==
  LET s1 == InsertBid(d, id, created_by)
  IN <<s1, s1>>

\* SubmitBidStatements whose UPDATE is keyed by the new bid's id instead of the
\* request's id.
SubmitBidStatements_KeyedByBid(d, id, created_by) ==
  LET s1 == InsertBid(d, id, created_by)
      s2 == UpdateRequestStatus(s1, s1.bid_seq, "Bid(s) received")
  IN <<s1, s2>>

\* The two statements of submit_bid's try block.
SubmitBidStatements(d, id, created_by) ==
  LET s1 == InsertBid(d, id, created_by)
      s2 == UpdateRequestStatus(s1, id, "Bid(s) received")
  IN <<s1, s2>>

\* submit_bid's POST branch for one request id, the role gate passed.
SubmitBidBody(u, id) ==
  /\ NumRows(db) < MaxRows
  /\ Try("submit_bid", u, id, SubmitBidStatements(db, id, u))

\* /<id>/submit-bid
submit_bid(u) ==
  IF supplier_only(u) # "pass"
  THEN NoMutation("submit_bid", u, 0, supplier_only(u))
  ELSE \E method \in Methods :
         IF method # "POST"
         THEN NoMutation("submit_bid", u, 0, "form")
         ELSE \E id \in RequestIdArgs : SubmitBidBody(u, id)

\* The three lists handed to the template supplier_requests.html.
render_template(u, not_bid, bid, won) ==
  [caller |-> u, live_requests_not_bid |-> not_bid, requests_bid |-> bid,
   requests_bid_won |-> won]

\* /supplier-requests, served with no other call between its queries
supplier_requests(u) ==
  /\ UNCHANGED <<inflight, done>>
  /\ IF supplier_only(u) # "pass"
     THEN /\ NoMutation("supplier_requests", u, 0, supplier_only(u))
          /\ view' = NoView
     ELSE /\ NoMutation("supplier_requests", u, 0, "rendered")
          /\ view' = render_template(u,
                       live_requests_not_bid(db, user[u].company),
                       requests_bid(db, user[u].company),
                       requests_bid_won(db, user[u].company))

\* /customer-requests: the list handed to customer_requests.html
customer_requests(u) ==
  /\ UNCHANGED <<inflight, done>>
  /\ IF customer_only(u) # "pass"
     THEN /\ NoMutation("customer_requests", u, 0, customer_only(u))
          /\ view' = NoView
     ELSE /\ NoMutation("customer_requests", u, 0, "rendered")
          /\ view' = [caller |-> u, requests |-> requests_of_company(db, user[u].company)]

\* A call served from start to end with no other call in between.
Sequential ==
  /\ view' = NoView
  /\ UNCHANGED <<inflight, done>>

Next ==
  \/ \E u \in Callers : create_request(u) /\ Sequential
  \/ \E u \in Callers : remove_request(u) /\ Sequential
  \/ \E u \in Callers : update_request(u) /\ Sequential
  \/ \E u \in Callers : accept_bid(u) /\ Sequential
  \/ \E u \in Callers : reject_bid(u) /\ Sequential
  \/ \E u \in Callers : submit_bid(u) /\ Sequential

Spec == Init /\ [][Next]_vars

\* Customers of two companies and a supplier, to tell the company that owns a
\* request from another one.
CompanyCallers == {"cust1", "cust2", "supp1"}

NextCompany ==
  \/ \E u \in CompanyCallers : create_request(u) /\ Sequential
  \/ \E u \in CompanyCallers : remove_request(u) /\ Sequential
  \/ \E u \in CompanyCallers : update_request(u) /\ Sequential
  \/ \E u \in CompanyCallers : accept_bid(u) /\ Sequential
  \/ \E u \in CompanyCallers : reject_bid(u) /\ Sequential
  \/ \E u \in CompanyCallers : submit_bid(u) /\ Sequential

SpecCompany == Init /\ [][NextCompany]_vars

\* The supplier dashboard with suppliers of two companies bidding on the
\* requests of a customer; every caller has the role its handler asks for.
DashboardCustomers == {"cust1"}

DashboardSuppliers == {"supp1", "supp2"}

NextDashboard ==
  \/ \E u \in DashboardCustomers : create_request(u) /\ Sequential
  \/ \E u \in DashboardCustomers : remove_request(u) /\ Sequential
  \/ \E u \in DashboardCustomers : update_request(u) /\ Sequential
  \/ \E u \in DashboardCustomers : accept_bid(u) /\ Sequential
  \/ \E u \in DashboardCustomers : reject_bid(u) /\ Sequential
  \/ \E u \in DashboardSuppliers : submit_bid(u) /\ Sequential
  \/ \E u \in DashboardSuppliers : supplier_requests(u)

SpecDashboard == Init /\ [][NextDashboard]_vars

\* The customer listing.  Customers of two companies create requests and look
\* at their lists; the other handlers, which do not look at the caller's
\* company, are called by one customer and one supplier.
ListingCustomers == {"cust1", "cust2"}

ListingCustomer == {"cust1"}

ListingSuppliers == {"supp1"}

NextListing ==
  \/ \E u \in ListingCustomers : create_request(u) /\ Sequential
  \/ \E u \in ListingCustomer : remove_request(u) /\ Sequential
  \/ \E u \in ListingCustomer : update_request(u) /\ Sequential
  \/ \E u \in ListingCustomer : accept_bid(u) /\ Sequential
  \/ \E u \in ListingCustomer : reject_bid(u) /\ Sequential
  \/ \E u \in ListingSuppliers : submit_bid(u) /\ Sequential
  \/ \E u \in ListingCustomers : customer_requests(u)

SpecListing == Init /\ [][NextListing]_vars

----------------------------------------------------------------------------
(* Concurrent calls.  Every call has its own connection (db.py get_db); a   *)
(* SELECT outside a try block is its own read of the committed database,    *)
(* and the statements of a try block up to the commit are one write         *)
(* transaction, which SQLite serialises with the other writers.  A call in  *)
(* flight is a record of `inflight` holding its position and its locals;    *)
(* `done` holds the calls ended since the server was last idle.             *)

\* The most calls served between two moments at which no call is in flight.
MaxConcurrent == 2

\* The calls ended in the company of the calls in flight.
Batch == IF inflight = {} THEN {} ELSE done

CanStart == Cardinality(inflight) + Cardinality(Batch) < MaxConcurrent

FreeSlot ==
  CHOOSE s \in 1..MaxConcurrent :
    /\ s \notin {c.slot : c \in inflight \cup Batch}
    /\ \A t \in 1..(s - 1) : t \in {c.slot : c \in inflight \cup Batch}

Ended(slot, op, arg, outcome) ==
  [slot |-> slot, op |-> op, arg |-> arg, outcome |-> outcome]

\* A call that takes one step: it ends in the step in which it starts.
Atomic ==
  /\ CanStart
  /\ view' = NoView
  /\ inflight' = inflight
  /\ done' = Batch \cup {Ended(FreeSlot, last'.op, last'.arg, last'.outcome)}

\* The call starts and stays in flight, about to run `pc`.
Start(op, u, arg, pc, request_id, rows) ==
  /\ inflight' = inflight \cup
       {[slot |-> FreeSlot, op |-> op, caller |-> u, arg |-> arg, pc |-> pc,
         request_id |-> request_id, number_of_bids |-> 0,
         live_requests_not_bid |-> rows, requests_bid |-> {}]}
  /\ done' = Batch
  /\ view' = NoView
  /\ UNCHANGED <<db, last>>

\* The call c in flight moves on to the record `next`.
Continue(c, next) ==
  /\ inflight' = (inflight \ {c}) \cup {next}
  /\ view' = NoView
  /\ UNCHANGED <<db, last, done>>

\* The call c in flight ends.
End(c) ==
  /\ inflight' = inflight \ {c}
  /\ done' = done \cup {Ended(c.slot, last'.op, last'.arg, last'.outcome)}

\* accept_bid up to its try block: the role gate and SELECT request_id.
accept_bid_select(u) ==
  /\ CanStart
  /\ IF customer_only(u) # "pass"
     THEN NoMutation("accept_bid", u, 0, customer_only(u)) /\ Atomic
     ELSE \E bid_id \in BidIdArgs :
            IF bid_id \notin BidIdsOf(db)
            THEN NoMutation("accept_bid", u, bid_id, "server_error") /\ Atomic
            ELSE Start("accept_bid", u, bid_id, "try", db.bid[bid_id].request_id, {})

\* accept_bid's try block, on the database committed by then.
accept_bid_try ==
  \E c \in inflight :
    /\ c.op = "accept_bid" /\ c.pc = "try"
    /\ Try("accept_bid", c.caller, c.arg, AcceptBidStatements(db, c.request_id, c.arg))
    /\ End(c)
    /\ view' = NoView

\* reject_bid up to its second SELECT: the role gate and SELECT request_id.
reject_bid_select(u) ==
  /\ CanStart
  /\ IF customer_only(u) # "pass"
     THEN NoMutation("reject_bid", u, 0, customer_only(u)) /\ Atomic
     ELSE \E bid_id \in BidIdArgs :
            IF bid_id \notin BidIdsOf(db)
            THEN NoMutation("reject_bid", u, bid_id, "server_error") /\ Atomic
            ELSE Start("reject_bid", u, bid_id, "count", db.bid[bid_id].request_id, {})

\* reject_bid's SELECT COUNT, on the database committed by then.
reject_bid_count ==
  \E c \in inflight :
    /\ c.op = "reject_bid" /\ c.pc = "count"
    /\ Continue(c, [c EXCEPT !.pc = "try",
                             !.number_of_bids = CountNotRejected(db, c.request_id)])

\* reject_bid's try block, with the count read before it.
reject_bid_try ==
  \E c \in inflight :
    /\ c.op = "reject_bid" /\ c.pc = "try"
    /\ Try("reject_bid", c.caller, c.arg,
           RejectBidStatements(db, c.request_id, c.arg, c.number_of_bids))
    /\ End(c)
    /\ view' = NoView

\* remove_request up to its try block: the role gate, SELECT request_status
\* and the tests of its result.
remove_request_select(u) ==
  /\ CanStart
  /\ IF customer_only(u) # "pass"
     THEN NoMutation("remove_request", u, 0, customer_only(u)) /\ Atomic
     ELSE \E id \in RequestIdArgs :
            IF id \notin RequestIdsOf(db)
            THEN NoMutation("remove_request", u, id, "not_exist") /\ Atomic
            ELSE IF db.request[id].request_status = "Complete"
            THEN NoMutation("remove_request", u, id, "complete_error") /\ Atomic
            ELSE Start("remove_request", u, id, "try", id, {})

\* remove_request's try block, on the database committed by then.
remove_request_try ==
  \E c \in inflight :
    /\ c.op = "remove_request" /\ c.pc = "try"
    /\ Try("remove_request", c.caller, c.arg, <<DeleteRequest(db, c.arg)>>)
    /\ End(c)
    /\ view' = NoView

\* supplier_requests up to its second query: the role gate and the first query.
supplier_requests_not_bid(u) ==
  /\ CanStart
  /\ IF supplier_only(u) # "pass"
     THEN NoMutation("supplier_requests", u, 0, supplier_only(u)) /\ Atomic
     ELSE Start("supplier_requests", u, 0, "requests_bid", NullId,
                live_requests_not_bid(db, user[u].company))

\* supplier_requests' second query, on the database committed by then.
supplier_requests_bid ==
  \E c \in inflight :
    /\ c.op = "supplier_requests" /\ c.pc = "requests_bid"
    /\ Continue(c, [c EXCEPT !.pc = "requests_bid_won",
                             !.requests_bid = requests_bid(db, user[c.caller].company)])

\* supplier_requests' third query, on the database committed by then, and the
\* rendering of the three lists.
supplier_requests_won ==
  \E c \in inflight :
    /\ c.op = "supplier_requests" /\ c.pc = "requests_bid_won"
    /\ NoMutation("supplier_requests", c.caller, 0, "rendered")
    /\ End(c)
    /\ view' = render_template(c.caller, c.live_requests_not_bid, c.requests_bid,
                               requests_bid_won(db, user[c.caller].company))

ConcurrentCustomers == {"cust1"}

ConcurrentSuppliers == {"supp1"}

NextConcurrent ==
  \/ \E u \in ConcurrentCustomers : create_request(u) /\ Atomic
  \/ \E u \in ConcurrentSuppliers : submit_bid(u) /\ Atomic
  \/ \E u \in ConcurrentCustomers : accept_bid_select(u)
  \/ accept_bid_try
  \/ \E u \in ConcurrentCustomers : reject_bid_select(u)
  \/ reject_bid_count
  \/ reject_bid_try
  \/ \E u \in ConcurrentCustomers : remove_request_select(u)
  \/ remove_request_try
  \/ \E u \in ConcurrentSuppliers : supplier_requests_not_bid(u)
  \/ supplier_requests_bid
  \/ supplier_requests_won

SpecConcurrent == Init /\ [][NextConcurrent]_vars

----------------------------------------------------------------------------
(* Properties.                                                              *)

\* The bids of request r in database d.
BidsOf(d, r) == {i \in BidIdsOf(d) : d.bid[i].request_id = r}

BidsWithStatus(d, r, status) == {i \in BidsOf(d, r) : d.bid[i].bid_status = status}

\* Every request id that a request row or a bid row of d names.
RequestIdsNamed(d) == RequestIdsOf(d) \cup {d.bid[i].request_id : i \in BidIdsOf(d)}

\* The last call ran handler op to its commit.
Committed(op) == last.op = op /\ last.outcome = "committed"

\* C1: in every committed state a request has status Complete if and only if
\* exactly one of its bids has status Accepted.
C1_CompleteIffOneAccepted ==
  \A r \in RequestIdsOf(db) :
    (db.request[r].request_status = "Complete")
      <=> (Cardinality(BidsWithStatus(db, r, "Accepted")) = 1)

\* C2: in every reachable state every request has at most one bid with status
\* Accepted, whatever bids accept_bid was called on before.
C2_AtMostOneAccepted ==
  \A r \in RequestIdsNamed(db) : Cardinality(BidsWithStatus(db, r, "Accepted")) <= 1

\* C2 witness: accept_bid committed on a bid of a request another bid of which
\* was the Accepted one before the call.
C2_Witness ==
  /\ Committed("accept_bid")
  /\ \E other \in BidsOf(last.pre, last.pre.bid[last.arg].request_id) \ {last.arg} :
       /\ last.pre.bid[other].bid_status = "Accepted"
       /\ last.pre.bid[last.arg].bid_status = "Rejected"
  /\ db.bid[last.arg].bid_status = "Accepted"

\* C3: Complete is terminal: a request that was Complete before a call still
\* exists and is Complete after it, whatever the call.
C3_CompleteIsTerminal ==
  \A r \in RequestIdsOf(last.pre) :
    last.pre.request[r].request_status = "Complete"
      => /\ r \in RequestIdsOf(db)
         /\ db.request[r].request_status = "Complete"

\* C4: a request's status is a function of its non-rejected bids: it is
\* 'Awaiting bids' exactly when it has no bid that is not Rejected, and
\* 'Bid(s) received' exactly when it has a bid that is not Rejected and no
\* Accepted bid; reject_bid moves a request to 'Awaiting bids' only when no
\* non-Rejected bid remains on it.
C4_StatusDerivedFromBids ==
  /\ \A r \in RequestIdsOf(db) :
       /\ (db.request[r].request_status = "Awaiting bids")
            <=> (CountNotRejected(db, r) = 0)
       /\ (db.request[r].request_status = "Bid(s) received")
            <=> (CountNotRejected(db, r) >= 1 /\ BidsWithStatus(db, r, "Accepted") = {})
  /\ Committed("reject_bid")
       => \A r \in RequestIdsOf(db) \cap RequestIdsOf(last.pre) :
            (/\ last.pre.request[r].request_status # "Awaiting bids"
             /\ db.request[r].request_status = "Awaiting bids")
              => CountNotRejected(db, r) = 0

\* The case of C5: accept_bid committed on a bid of an existing request that
\* had two or more bids, all of them Pending.
C5_Case ==
  /\ Committed("accept_bid")
  /\ LET r == last.pre.bid[last.arg].request_id
     IN /\ r \in RequestIdsOf(last.pre)
        /\ Cardinality(BidsOf(last.pre, r)) >= 2
        /\ \A i \in BidsOf(last.pre, r) : last.pre.bid[i].bid_status = "Pending"

\* C5: for a request whose bids are all Pending (two or more), accept_bid(B1)
\* commits a state in which B1 is Accepted, every other bid of the request is
\* Rejected and the request is Complete.
C5_AcceptResolvesRequest ==
  C5_Case =>
    LET r == last.pre.bid[last.arg].request_id
    IN /\ db.bid[last.arg].bid_status = "Accepted"
       /\ BidsOf(db, r) = BidsOf(last.pre, r)
       /\ \A i \in BidsOf(db, r) \ {last.arg} : db.bid[i].bid_status = "Rejected"
       /\ r \in RequestIdsOf(db)
       /\ db.request[r].request_status = "Complete"

\* C5 witness: the case of C5 with its result.
C5_Witness ==
  /\ C5_Case
  /\ db.bid[last.arg].bid_status = "Accepted"
  /\ db.request[last.pre.bid[last.arg].request_id].request_status = "Complete"

\* The case of C6: reject_bid committed on the only bid, Pending, of an
\* existing request in 'Bid(s) received'.
C6_Case ==
  /\ Committed("reject_bid")
  /\ LET r == last.pre.bid[last.arg].request_id
     IN /\ r \in RequestIdsOf(last.pre)
        /\ last.pre.request[r].request_status = "Bid(s) received"
        /\ BidsOf(last.pre, r) = {last.arg}
        /\ last.pre.bid[last.arg].bid_status = "Pending"

\* C6: for a request in 'Bid(s) received' whose only bid B1 is Pending,
\* reject_bid(B1) sets B1 to Rejected and the request back to 'Awaiting bids'.
C6_RejectLastBidReverts ==
  C6_Case =>
    LET r == last.pre.bid[last.arg].request_id
    IN /\ db.bid[last.arg].bid_status = "Rejected"
       /\ r \in RequestIdsOf(db)
       /\ db.request[r].request_status = "Awaiting bids"

\* C6 witness: the case of C6 with its result.
C6_Witness ==
  /\ C6_Case
  /\ db.bid[last.arg].bid_status = "Rejected"
  /\ db.request[last.pre.bid[last.arg].request_id].request_status = "Awaiting bids"

\* The case of C7: reject_bid committed on a Pending bid of an existing request
\* in 'Bid(s) received' that had two or more Pending bids.
C7_Case ==
  /\ Committed("reject_bid")
  /\ LET r == last.pre.bid[last.arg].request_id
     IN /\ r \in RequestIdsOf(last.pre)
        /\ last.pre.request[r].request_status = "Bid(s) received"
        /\ last.pre.bid[last.arg].bid_status = "Pending"
        /\ Cardinality(BidsWithStatus(last.pre, r, "Pending")) >= 2

\* C7: for a request with two or more Pending bids, reject_bid(B1) sets B1 to
\* Rejected, leaves every other bid as it was (Pending), and leaves the
\* request's status at 'Bid(s) received'.
C7_RejectKeepsBidsReceived ==
  C7_Case =>
    LET r == last.pre.bid[last.arg].request_id
    IN /\ db.bid[last.arg].bid_status = "Rejected"
       /\ BidIdsOf(db) = BidIdsOf(last.pre)
       /\ \A i \in BidIdsOf(db) \ {last.arg} : db.bid[i] = last.pre.bid[i]
       /\ r \in RequestIdsOf(db)
       /\ db.request[r].request_status = "Bid(s) received"

\* C7 witness: the case of C7, and another bid of the request is still Pending.
C7_Witness ==
  /\ C7_Case
  /\ db.bid[last.arg].bid_status = "Rejected"
  /\ BidsWithStatus(db, last.pre.bid[last.arg].request_id, "Pending") # {}

\* The case of C8: submit_bid committed for an existing request in
\* 'Awaiting bids'.
C8_Case ==
  /\ Committed("submit_bid")
  /\ last.arg \in RequestIdsOf(last.pre)
  /\ last.pre.request[last.arg].request_status = "Awaiting bids"

\* C8: submit_bid on an existing request with status 'Awaiting bids' inserts
\* exactly one new bid, for that request, Pending and created by the caller,
\* and moves the request to 'Bid(s) received'.
C8_SubmitInsertsPendingBid ==
  C8_Case =>
    /\ \E n \in BidIdsOf(db) :
         /\ BidIdsOf(db) = BidIdsOf(last.pre) \cup {n}
         /\ n \notin BidIdsOf(last.pre)
         /\ db.bid[n] = [request_id |-> last.arg, created_by |-> last.caller,
                         bid_status |-> "Pending"]
    /\ \A i \in BidIdsOf(last.pre) : db.bid[i] = last.pre.bid[i]
    /\ last.arg \in RequestIdsOf(db)
    /\ db.request[last.arg].request_status = "Bid(s) received"

\* C8 witness: the case of C8 with the request now in 'Bid(s) received'.
C8_Witness ==
  /\ C8_Case
  /\ Cardinality(BidIdsOf(db)) = Cardinality(BidIdsOf(last.pre)) + 1
  /\ db.request[last.arg].request_status = "Bid(s) received"

\* C9: submit_bid against a request already in 'Bid(s) received' leaves it in
\* 'Bid(s) received', and no submit_bid that commits leaves its target request
\* in 'Awaiting bids'.
C9_SubmitNeverRegresses ==
  (Committed("submit_bid") /\ last.arg \in RequestIdsOf(last.pre)) =>
    /\ last.arg \in RequestIdsOf(db)
    /\ db.request[last.arg].request_status # "Awaiting bids"
    /\ last.pre.request[last.arg].request_status = "Bid(s) received"
         => db.request[last.arg].request_status = "Bid(s) received"

\* C9 witness: submit_bid committed for a request that was already in
\* 'Bid(s) received'.
C9_Witness ==
  /\ Committed("submit_bid")
  /\ last.arg \in RequestIdsOf(last.pre)
  /\ last.pre.request[last.arg].request_status = "Bid(s) received"
  /\ db.request[last.arg].request_status = "Bid(s) received"
  /\ Cardinality(BidsOf(db, last.arg)) >= 2

\* C10: accept_bid is atomic: when a call of its try block raises, the
\* statements already executed are rolled back and the request and all bids
\* have the values they had before the call.
C10_AcceptBidAtomic ==
  (last.op = "accept_bid" /\ last.fault # 0) => db = last.pre

\* C10 witness: the sibling-rejection update of accept_bid raised, after the
\* request-status and bid-status updates ran, on a Pending bid of a request in
\* 'Bid(s) received' with a Pending sibling, and all three rows are as before.
C10_Witness ==
  /\ last.op = "accept_bid"
  /\ last.outcome = "rolled_back"
  /\ last.fault = 3
  /\ LET r == last.pre.bid[last.arg].request_id
     IN /\ r \in RequestIdsOf(db)
        /\ db.request[r].request_status = "Bid(s) received"
        /\ db.bid[last.arg].bid_status = "Pending"
        /\ \E i \in BidsOf(db, r) \ {last.arg} : db.bid[i].bid_status = "Pending"

\* The case of C11: remove_request called for an existing request whose
\* status is Complete.
C11_Case ==
  /\ last.op = "remove_request"
  /\ last.arg \in RequestIdsOf(last.pre)
  /\ last.pre.request[last.arg].request_status = "Complete"

\* C11: remove_request on a request whose status is Complete deletes nothing:
\* the request row and all bid rows are unchanged and an error is reported.
C11_RemoveCompleteRefused ==
  C11_Case => (db = last.pre /\ last.outcome = "complete_error")

\* C11 witness: remove_request was refused for a Complete request that is
\* still there with its Accepted bid.
C11_Witness ==
  /\ C11_Case
  /\ last.arg \in RequestIdsOf(db)
  /\ db.request[last.arg].request_status = "Complete"
  /\ BidsWithStatus(db, last.arg, "Accepted") # {}

\* C12: submit_bid against a request whose status is Complete fails before any
\* mutation: no bid row is inserted and the request's status stays Complete.
C12_SubmitOnCompleteRefused ==
  (/\ last.op = "submit_bid"
   /\ last.arg \in RequestIdsOf(last.pre)
   /\ last.pre.request[last.arg].request_status = "Complete")
    => /\ last.outcome # "committed"
       /\ db.bid = last.pre.bid
       /\ db.request[last.arg].request_status = "Complete"

CustomerHandlers ==
  {"create_request", "update_request", "remove_request", "accept_bid", "reject_bid"}

\* The last call was made by a logged-in user of the given user_type.
CalledByType(user_type) ==
  /\ last.caller \in UserIds
  /\ user[last.caller].user_type = user_type

\* C13: a submit_bid call by a Customer inserts no bid and changes no request,
\* and a create_request, update_request, remove_request, accept_bid or
\* reject_bid call by a Supplier makes no mutation.
C13_RoleGating ==
  /\ (last.op = "submit_bid" /\ CalledByType("Customer")) => db = last.pre
  /\ (last.op \in CustomerHandlers /\ CalledByType("Supplier")) => db = last.pre

\* C13 witness: a Customer called submit_bid while a request was awaiting bids
\* and was sent to the login page.
C13_Witness ==
  /\ last.op = "submit_bid"
  /\ CalledByType("Customer")
  /\ last.outcome = "login_redirect"
  /\ \E r \in RequestIdsOf(db) : db.request[r].request_status = "Awaiting bids"

\* C20: a create_request call by a Customer that commits inserts exactly one
\* request, with status 'Awaiting bids', company equal to the caller's company
\* and created_by equal to the caller, and changes no existing request or bid.
C20_CreateInsertsOneRequest ==
  Committed("create_request") =>
    /\ CalledByType("Customer")
    /\ \E id \in RequestIdsOf(db) \ RequestIdsOf(last.pre) :
         /\ RequestIdsOf(db) = RequestIdsOf(last.pre) \cup {id}
         /\ db.request[id].request_status = "Awaiting bids"
         /\ db.request[id].company = user[last.caller].company
         /\ db.request[id].created_by = last.caller
    /\ \A r \in RequestIdsOf(last.pre) : db.request[r] = last.pre.request[r]
    /\ db.bid = last.pre.bid

\* C20 witness: create_request committed while another request with a bid
\* existed.
C20_Witness ==
  /\ Committed("create_request")
  /\ \E r \in RequestIdsOf(last.pre) : BidsOf(last.pre, r) # {}
  /\ Cardinality(RequestIdsOf(db)) = Cardinality(RequestIdsOf(last.pre)) + 1

\* The last call was made by a logged-in user whose company is not the
\* company of request r of the state before the call.
CalledByOtherCompany(r) ==
  /\ last.caller \in UserIds
  /\ r \in RequestIdsOf(last.pre)
  /\ user[last.caller].company # last.pre.request[r].company

\* C14: update_request, remove_request, accept_bid and reject_bid change state
\* only when the caller's company is the company of the request (of the bid's
\* request): a user of another company calling them causes no mutation.
C14_CompanyScoping ==
  /\ (last.op \in {"update_request", "remove_request"}
        /\ CalledByOtherCompany(last.arg)) => db = last.pre
  /\ (last.op \in {"accept_bid", "reject_bid"}
        /\ last.arg \in BidIdsOf(last.pre)
        /\ CalledByOtherCompany(last.pre.bid[last.arg].request_id)) => db = last.pre

\* The requests named by the rows of a result set.
RequestsIn(rows) == {row.request_id : row \in rows}

\* The requests of d that are not Complete.
NotComplete(d) ==
  {r \in RequestIdsOf(d) : d.request[r].request_status # "Complete"}

\* The bids on request r created by users of the company.
CompanyBidsOn(d, r, company) ==
  {b \in BidsOf(d, r) : user[d.bid[b].created_by].company = company}

\* C18: evaluated on one state, the dashboard of a company lists as 'not yet
\* bid' exactly the non-Complete requests with no bid created by users of the
\* company and as 'bid' exactly the non-Complete requests with at least one
\* such bid, of any status; the two sets are disjoint and together are all the
\* non-Complete requests.
C18_LiveListsPartition ==
  view # NoView =>
    LET company == user[view.caller].company
        not_bid == RequestsIn(view.live_requests_not_bid)
        bid     == RequestsIn(view.requests_bid)
    IN /\ not_bid = {r \in NotComplete(db) : CompanyBidsOn(db, r, company) = {}}
       /\ bid = {r \in NotComplete(db) : CompanyBidsOn(db, r, company) # {}}
       /\ not_bid \cap bid = {}
       /\ not_bid \cup bid = NotComplete(db)

\* C18 witness: one dashboard lists a request in 'not yet bid' and another in
\* 'bid', the latter for a bid of the company that is Rejected.
C18_Witness ==
  /\ view # NoView
  /\ view.live_requests_not_bid # {}
  /\ \E row \in view.requests_bid : db.bid[row.bid_id].bid_status = "Rejected"

\* C19: the dashboard of a company lists as 'won' exactly the Complete requests
\* on which the company holds a bid whose status is not Rejected; a company
\* whose bids on a Complete request are all Rejected does not see it as won.
C19_WonList ==
  view # NoView =>
    LET company == user[view.caller].company
    IN RequestsIn(view.requests_bid_won) =
         {r \in RequestIdsOf(db) :
            /\ db.request[r].request_status = "Complete"
            /\ \E b \in CompanyBidsOn(db, r, company) :
                 db.bid[b].bid_status # "Rejected"}

\* C19 witness: the dashboard of a company does not list as won a Complete
\* request on which its only bid is Rejected and another company's is Accepted.
C19_Witness ==
  /\ view # NoView
  /\ \E r \in RequestIdsOf(db) \ RequestsIn(view.requests_bid_won) :
       /\ db.request[r].request_status = "Complete"
       /\ CompanyBidsOn(db, r, user[view.caller].company) # {}
       /\ BidsWithStatus(db, r, "Accepted") # {}

\* No call is in flight and the calls of the last batch, at least two, all
\* committed, each is one of `ops`, and the bids they name are different.
BatchCommitted(ops) ==
  /\ inflight = {}
  /\ Cardinality(done) >= 2
  /\ \A c \in done : c.op \in ops /\ c.outcome = "committed"
  /\ \A c1, c2 \in done : (c1 # c2 /\ c1.op = c2.op) => c1.arg # c2.arg

\* The request a call of the batch is about: the request of the bid for
\* accept_bid and reject_bid, the request itself for submit_bid.
RequestOfCall(c) ==
  IF c.op = "submit_bid" THEN c.arg ELSE db.bid[c.arg].request_id

\* C15: when concurrent accept_bid calls on different bids of one request, or
\* accept_bid and reject_bid calls on different bids of one request, have all
\* committed, whatever their interleaving, the request has exactly one Accepted
\* bid, its other bids are Rejected and it is Complete.
C15_ConcurrentAcceptResolves ==
  \A r \in RequestIdsOf(db) :
    (/\ BatchCommitted({"accept_bid", "reject_bid"})
     /\ \E c \in done : c.op = "accept_bid"
     /\ \A c1, c2 \in done : c1 # c2 => c1.arg # c2.arg
     /\ \A c \in done : RequestOfCall(c) = r)
      => /\ Cardinality(BidsWithStatus(db, r, "Accepted")) = 1
         /\ BidsOf(db, r) = BidsWithStatus(db, r, "Accepted")
                              \cup BidsWithStatus(db, r, "Rejected")
         /\ db.request[r].request_status = "Complete"

\* C16: when concurrent reject_bid calls on bids of one request, or reject_bid
\* and submit_bid calls on one request, have all committed, whatever their
\* interleaving, the request has status 'Awaiting bids' if and only if it has
\* no bid that is not Rejected.
C16_ConcurrentRejectDerivesStatus ==
  \A r \in RequestIdsOf(db) :
    (/\ BatchCommitted({"reject_bid", "submit_bid"})
     /\ \E c \in done : c.op = "reject_bid"
     /\ \A c \in done : RequestOfCall(c) = r)
      => (db.request[r].request_status = "Awaiting bids"
            <=> BidsOf(db, r) = BidsWithStatus(db, r, "Rejected"))

\* C17: the three lists of one supplier_requests call are consistent with one
\* snapshot: no request is both in the 'not yet bid' list and in the 'bid'
\* list, and none is both in one of these two and in the 'won' list.
C17_DashboardOneSnapshot ==
  view # NoView =>
    LET not_bid == RequestsIn(view.live_requests_not_bid)
        bid     == RequestsIn(view.requests_bid)
        won     == RequestsIn(view.requests_bid_won)
    IN /\ not_bid \cap bid = {}
       /\ (not_bid \cup bid) \cap won = {}

\* The request row inserted by the last call, a create_request that committed.
InsertedRequest == db.request[NextRequestId(last.pre)]

\* C21: create_request rejects invalid dates before any insert: a call with a
\* collection_date earlier than today or a delivery_date earlier than the
\* collection_date inserts no request row, so the row a committed call
\* inserted has neither.
C21_CreateRejectsInvalidDates ==
  Committed("create_request") =>
    /\ InsertedRequest.fields.collection_date >= Today
    /\ InsertedRequest.fields.delivery_date >= InsertedRequest.fields.collection_date

\* The case of C22: remove_request called for an existing request whose
\* status is not Complete.
C22_Case ==
  /\ last.op = "remove_request"
  /\ last.arg \in RequestIdsOf(last.pre)
  /\ last.pre.request[last.arg].request_status # "Complete"

\* C22: remove_request on an existing request whose status is not Complete
\* deletes that request row and nothing else: every bid, the bids of the
\* deleted request included, and every other request is unchanged.
C22_RemoveDeletesOnlyRequest ==
  C22_Case =>
    /\ last.outcome = "committed" => RequestIdsOf(db) = RequestIdsOf(last.pre) \ {last.arg}
    /\ last.outcome # "committed" => db = last.pre
    /\ \A r \in RequestIdsOf(last.pre) \ {last.arg} :
         r \in RequestIdsOf(db) /\ db.request[r] = last.pre.request[r]
    /\ db.bid = last.pre.bid

\* C22 witness: remove_request committed the delete of a request that has a
\* bid, and the bid is still there.
C22_Witness ==
  /\ C22_Case
  /\ last.outcome = "committed"
  /\ last.arg \notin RequestIdsOf(db)
  /\ BidsOf(db, last.arg) # {}

\* C23: update_request never changes a request's status, company or created_by
\* nor any bid, whatever the request's status; it changes only the logistics
\* fields of the request it is called for.
C23_UpdateChangesOnlyFields ==
  last.op = "update_request" =>
    /\ db.bid = last.pre.bid
    /\ RequestIdsOf(db) = RequestIdsOf(last.pre)
    /\ \A r \in RequestIdsOf(db) :
         /\ db.request[r].request_status = last.pre.request[r].request_status
         /\ db.request[r].company = last.pre.request[r].company
         /\ db.request[r].created_by = last.pre.request[r].created_by
         /\ r # last.arg => db.request[r] = last.pre.request[r]

\* C23 witness: update_request committed new logistics fields for a request
\* that is Complete.
C23_Witness ==
  /\ Committed("update_request")
  /\ last.pre.request[last.arg].request_status = "Complete"
  /\ db.request[last.arg].fields # last.pre.request[last.arg].fields

\* The case of C24: a Customer called accept_bid or reject_bid with a bid id
\* that no bid has.
C24_Case ==
  /\ last.op \in {"accept_bid", "reject_bid"}
  /\ CalledByType("Customer")
  /\ last.arg \notin BidIdsOf(last.pre)

\* C24: accept_bid and reject_bid called with a bid_id that resolves to no
\* existing bid fail and leave every request and every bid unchanged.
C24_UnknownBidRefused ==
  C24_Case => (db = last.pre /\ last.outcome = "server_error")

\* C24 witness: reject_bid was called with an unknown bid id while a request
\* had a Pending bid, and failed.
C24_Witness ==
  /\ C24_Case
  /\ last.op = "reject_bid"
  /\ last.outcome = "server_error"
  /\ \E r \in RequestIdsOf(db) : BidsWithStatus(db, r, "Pending") # {}

\* C25: submit_bid, update_request and remove_request called for a request id
\* that no request has fail with a not-found error and mutate nothing; in
\* particular submit_bid for a request that never existed or was deleted
\* inserts no bid.
C25_UnknownRequestRefused ==
  (/\ last.op \in {"submit_bid", "update_request", "remove_request"}
   /\ last.arg \notin RequestIdsOf(last.pre))
    => /\ db = last.pre
       /\ last.outcome # "committed"

\* C26: the status of a bid only moves out of Pending: a bid is created
\* Pending, every change of a bid's status by a call starts from Pending, and
\* it is to Accepted by accept_bid on that bid or to Rejected by reject_bid on
\* it or accept_bid on a sibling; an Accepted or Rejected bid never changes
\* status again.
C26_BidStatusLeavesPendingOnly ==
  /\ \A b \in BidIdsOf(db) \ BidIdsOf(last.pre) : db.bid[b].bid_status = "Pending"
  /\ \A b \in BidIdsOf(db) \cap BidIdsOf(last.pre) :
       db.bid[b].bid_status # last.pre.bid[b].bid_status =>
         /\ last.pre.bid[b].bid_status = "Pending"
         /\ \/ /\ db.bid[b].bid_status = "Accepted"
               /\ last.op = "accept_bid" /\ last.arg = b
            \/ /\ db.bid[b].bid_status = "Rejected"
               /\ \/ last.op = "reject_bid" /\ last.arg = b
                  \/ /\ last.op = "accept_bid" /\ last.arg # b
                     /\ last.arg \in BidIdsOf(db)
                     /\ db.bid[last.arg].request_id = db.bid[b].request_id

\* The ids of the rows of a list, in a set.
IdsIn(rows) == {rows[i].id : i \in 1..Len(rows)}

\* C27: customer_requests returns exactly the requests whose company is the
\* caller's company, each once, ordered by created_date newest first; no
\* request of another company is returned.
C27_ListsOwnCompanyNewestFirst ==
  (view # NoView /\ last.op = "customer_requests") =>
    LET rows == view.requests
        company == user[view.caller].company
    IN /\ IdsIn(rows) = {r \in RequestIdsOf(db) : db.request[r].company = company}
       /\ \A i, j \in 1..Len(rows) : i # j => rows[i].id # rows[j].id
       /\ \A i, j \in 1..Len(rows) :
            i < j => created_date(db, rows[i].id) >= created_date(db, rows[j].id)

\* C27 witness: a list of two requests of the caller's company while the other
\* company has a request too.
C27_Witness ==
  /\ view # NoView
  /\ last.op = "customer_requests"
  /\ Len(view.requests) = 2
  /\ RequestIdsOf(db) \ IdsIn(view.requests) # {}

\* C28: reject_bid(B) decides the request's status from the count of the bids
\* of B's request whose status is not Rejected, read before B is updated: it
\* sets the request to 'Awaiting bids' exactly when that count is 1 and
\* otherwise leaves the request's status as it was; in both cases B ends
\* Rejected.
C28_RejectDecidesOnPreCount ==
  Committed("reject_bid") =>
    LET r == last.pre.bid[last.arg].request_id
        pre_count == CountNotRejected(last.pre, r)
    IN /\ db.bid[last.arg].bid_status = "Rejected"
       /\ RequestIdsOf(db) = RequestIdsOf(last.pre)
       /\ r \in RequestIdsOf(db) =>
            db.request[r].request_status =
              IF pre_count = 1 THEN "Awaiting bids"
              ELSE last.pre.request[r].request_status

\* C28 witness: reject_bid on the one Pending bid of a request whose other bid
\* is Rejected read the count 1 and took the request from 'Bid(s) received'
\* to 'Awaiting bids'.
C28_Witness ==
  /\ Committed("reject_bid")
  /\ LET r == last.pre.bid[last.arg].request_id
     IN /\ r \in RequestIdsOf(db)
        /\ CountNotRejected(last.pre, r) = 1
        /\ Cardinality(BidsOf(last.pre, r)) = 2
        /\ last.pre.bid[last.arg].bid_status = "Pending"
        /\ last.pre.request[r].request_status = "Bid(s) received"
        /\ db.request[r].request_status = "Awaiting bids"

\* C29: a request is deleted only while its status is not Complete, also when
\* remove_request runs concurrently with accept_bid on a bid of the request:
\* when remove_request's delete commits, the committed status of the request
\* it deletes is not Complete and no bid of the deleted request is Accepted.
C29_DeletesOnlyOpenRequests ==
  (Committed("remove_request") /\ last.arg \in RequestIdsOf(last.pre)) =>
    /\ last.pre.request[last.arg].request_status # "Complete"
    /\ BidsWithStatus(db, last.arg, "Accepted") = {}

\* C30: reject_bid is idempotent: when reject_bid(B) has committed, so that B
\* is Rejected, a second reject_bid(B) right after it leaves the request's
\* status and every bid's status as they were after the first call, whatever
\* other bids the request has.
C30_RejectIdempotent ==
  [][(/\ Committed("reject_bid")
      /\ db.bid[last.arg].bid_status = "Rejected"
      /\ last'.op = "reject_bid"
      /\ last'.arg = last.arg)
       => db' = db]_vars

\* C31: accept_bid is idempotent: when accept_bid(B) has committed, a second
\* accept_bid(B) right after it, with no other call in between, leaves every
\* request and every bid as the first call left them.
C31_AcceptIdempotent ==
  [][(/\ Committed("accept_bid")
      /\ last'.op = "accept_bid"
      /\ last'.arg = last.arg)
       => db' = db]_vars

\* C31 witness: accept_bid committed on a bid that was already Accepted, of a
\* Complete request with a Rejected sibling, and changed nothing.
C31_Witness ==
  /\ Committed("accept_bid")
  /\ last.pre.bid[last.arg].bid_status = "Accepted"
  /\ LET r == last.pre.bid[last.arg].request_id
     IN /\ r \in RequestIdsOf(last.pre)
        /\ last.pre.request[r].request_status = "Complete"
        /\ BidsWithStatus(last.pre, r, "Rejected") # {}
  /\ db = last.pre

\* C32: in every committed state a request with status Complete has no Pending
\* bid, each of its bids that is not Rejected being Accepted, so every request
\* a dashboard lists as won carries an Accepted bid of the company.
C32_CompleteHasNoPendingBid ==
  /\ \A r \in RequestIdsOf(db) :
       db.request[r].request_status = "Complete" =>
         BidsWithStatus(db, r, "Pending") = {}
  /\ (view # NoView /\ last.op = "supplier_requests") =>
       \A row \in view.requests_bid_won :
         /\ db.bid[row.bid_id].bid_status = "Accepted"
         /\ user[db.bid[row.bid_id].created_by].company = user[view.caller].company

\* C32 witness: a dashboard lists as won a Complete request with the company's
\* Accepted bid and a Rejected bid.
C32_Witness ==
  /\ view # NoView
  /\ last.op = "supplier_requests"
  /\ \E row \in view.requests_bid_won :
       /\ db.request[row.request_id].request_status = "Complete"
       /\ db.bid[row.bid_id].bid_status = "Accepted"
       /\ BidsWithStatus(db, row.request_id, "Rejected") # {}

\* The request the last call was addressed to: the request named by submit_bid,
\* the request of the bid named by accept_bid or reject_bid (NullId: none).
AddressedRequest ==
  IF last.op = "submit_bid" THEN last.arg
  ELSE IF last.arg \in BidIdsOf(last.pre) THEN last.pre.bid[last.arg].request_id
  ELSE NullId

\* The bid `b` has the status it had before the last call.
SameBidStatus(b) == db.bid[b].bid_status = last.pre.bid[b].bid_status

\* C33: submit_bid, accept_bid and reject_bid addressed to request R leave the
\* status of every other request and of every bid of every other request
\* unchanged; submit_bid and reject_bid also leave the status of every other
\* bid of R unchanged; no call deletes a bid or changes a bid's request_id.
C33_FrameOfBidOperations ==
  /\ last.op \in {"submit_bid", "accept_bid", "reject_bid"} =>
       /\ \A r \in RequestIdsOf(last.pre) \ {AddressedRequest} :
            /\ r \in RequestIdsOf(db)
            /\ db.request[r].request_status = last.pre.request[r].request_status
       /\ \A b \in BidIdsOf(last.pre) :
            last.pre.bid[b].request_id # AddressedRequest => SameBidStatus(b)
  /\ last.op = "submit_bid" =>
       \A b \in BidIdsOf(last.pre) : SameBidStatus(b)
  /\ last.op = "reject_bid" =>
       \A b \in BidIdsOf(last.pre) \ {last.arg} : SameBidStatus(b)
  /\ \A b \in BidIdsOf(last.pre) :
       /\ b \in BidIdsOf(db)
       /\ db.bid[b].request_id = last.pre.bid[b].request_id

\* C33 witness: accept_bid committed and made the bid's request Complete while
\* another request existed, which kept its status.
C33_Witness ==
  /\ Committed("accept_bid")
  /\ AddressedRequest \in RequestIdsOf(db)
  /\ last.pre.request[AddressedRequest].request_status # "Complete"
  /\ db.request[AddressedRequest].request_status = "Complete"
  /\ \E r \in RequestIdsOf(last.pre) \ {AddressedRequest} :
       /\ r \in RequestIdsOf(db)
       /\ db.request[r].request_status = last.pre.request[r].request_status

\* The handlers behind a role gate that write to the request or bid table.
GatedHandlers == CustomerHandlers \cup {"submit_bid"}

\* C34: a call of create_request, update_request, remove_request, accept_bid,
\* reject_bid or submit_bid with nobody logged in (g.user is None) ends in an
\* error or a redirect at the role gate and changes no request and no bid.
C34_NobodyLoggedInMutatesNothing ==
  (last.caller = None /\ last.op \in GatedHandlers) =>
    /\ last.outcome \in {"server_error", "login_redirect"}
    /\ db = last.pre

\* C34 witness: submit_bid was called with nobody logged in while a request
\* was open to bids and had a Pending bid, and ended in a server error.
C34_Witness ==
  /\ last.op = "submit_bid"
  /\ last.caller = None
  /\ last.outcome = "server_error"
  /\ \E r \in RequestIdsOf(last.pre) :
       /\ last.pre.request[r].request_status = "Bid(s) received"
       /\ BidsWithStatus(last.pre, r, "Pending") # {}

====
